---- MODULE Spec2Model ----
(***************************************************************************)
(* A model of rapid-rust: the tokenizer (src/src/lexer.rs), the recursive  *)
(* descent parser and the tree-walking evaluator (src/src/parser.rs), and  *)
(* the driver (src/src/main.rs).                                           *)
(*                                                                         *)
(* Text is a sequence of one-character strings.  A number (f64) is a       *)
(* signed fraction s * n / d in lowest terms, with d = 0 for the           *)
(* infinities (n = 1) and for NaN (n = 0), and a signed zero; rounding is  *)
(* left out, so the arithmetic is exact on the small operands used here.   *)
(***************************************************************************)
EXTENDS Integers, Sequences, FiniteSets, TLC

VARIABLES
    contents,   \* lexer::parse: the source text
    idx,        \* lexer::parse: current index into contents (0-based)
    lexpc,      \* lexer::parse: "scan", "returned" or "panic"
    tokens,     \* the Vec<TokenType> built by the lexer and read by the parser
    pos,        \* parse_tokens: number of tokens the iterator has yielded
    pc,         \* parser: the function/loop the control is in
    result,     \* parse_tokens: "running", "Ok", "Err" or "Panic"
    err,        \* the message of the Err returned
    modules,    \* Program.modules: names of the modules pushed
    module,     \* read_mod: the name of the Module being read
    variables,  \* read_proc: name -> (slot index, Variable)
    var_idx,    \* read_proc: next slot index
    routine,    \* the Routine being parsed / executed
    stack,      \* test_proc: Stack { offset, variables }
    nodei,      \* test_proc: number of nodes of the routine evaluated so far
    executed,   \* number of statement nodes evaluated since parse_tokens began
    out         \* the "[Out]" lines printed by Node::Print

vars == <<contents, idx, lexpc, tokens, pos, pc, result, err, modules, module,
          variables, var_idx, routine, stack, nodei, executed, out>>

lexvars == <<contents, idx, lexpc, tokens>>

parsevars == <<pos, pc, result, err, modules, module, variables, var_idx, routine,
               stack, nodei, executed, out>>

----------------------------------------------------------------------------
(* Characters *)

LowerCase == <<"a","b","c","d","e","f","g","h","i","j","k","l","m",
               "n","o","p","q","r","s","t","u","v","w","x","y","z">>

UpperCase == <<"A","B","C","D","E","F","G","H","I","J","K","L","M",
               "N","O","P","Q","R","S","T","U","V","W","X","Y","Z">>

Digits == <<"0","1","2","3","4","5","6","7","8","9">>

Range(s) == {s[i] : i \in DOMAIN s}

IsDigit(c) == c \in Range(Digits)

IsLetter(c) == c \in Range(LowerCase) \cup Range(UpperCase)

\* u8::to_ascii_uppercase, as used by str::eq_ignore_ascii_case
ToUpper(c) ==
    IF c \in Range(LowerCase)
    THEN UpperCase[CHOOSE i \in DOMAIN LowerCase : LowerCase[i] = c]
    ELSE c

EqIgnoreAsciiCase(a, b) ==
    /\ Len(a) = Len(b)
    /\ \A i \in DOMAIN a : ToUpper(a[i]) = ToUpper(b[i])

DigitValue(c) == (CHOOSE i \in DOMAIN Digits : Digits[i] = c) - 1

\* str::find: hits are the 1-based positions that satisfy the pattern; the
\* 0-based index of the first of them, or -1 for None
Find(hits) ==
    IF hits = {} THEN -1
    ELSE (CHOOSE i \in hits : \A j \in hits : i <= j) - 1

\* &s[a..b] with 0-based a, b; the caller checks a <= b <= Len(s)
Slice(s, a, b) == SubSeq(s, a + 1, b)

----------------------------------------------------------------------------
(* Tokens: enum TokenType *)

Tok(t) == [t |-> t]

Id(name) == [t |-> "Id", v |-> name]

NumValue(text) == [t |-> "NumValue", v |-> text]

StringValue(text) == [t |-> "StringValue", v |-> text]

\* Option::None of iter.next()
None == [t |-> "None"]

\* static DEFAULT_TOKENS: (spelling, token), in the order of the source
DEFAULT_TOKENS ==
    << <<<<";">>, "Semicolon">>, <<<<",">>, "Comma">>,
       <<<<"\n">>, "Newline">>, <<<<" ">>, "Whitespace">>,
       <<<<"\t">>, "Whitespace">>,
       <<<<"(">>, "LeftPar">>, <<<<")">>, "RightPar">>,
       <<<<"{">>, "LeftBrace">>, <<<<"}">>, "RightBrace">>,
       <<<<"[">>, "LeftBrack">>, <<<<"]">>, "RightBrack">>,
       <<<<"+">>, "Add">>, <<<<"-">>, "Minus">>,
       <<<<"*">>, "Multiply">>, <<<<"/">>, "Divide">>,
       <<<<"=">>, "Equal">>,
       <<<<"<",">">>, "NotEqual">>,
       <<<<"<","=">>, "LessEqual">>,
       <<<<"<">>, "Less">>,
       <<<<">","=">>, "GreaterEqual">>,
       <<<<">">>, "Greater">>,
       <<<<":","=">>, "Assign">>,
       <<<<"M","O","D">>, "Mod">>,
       <<<<"E","N","D","M","O","D">>, "EndMod">>,
       <<<<"P","R","O","C">>, "Proc">>,
       <<<<"E","N","D","P","R","O","C">>, "EndProc">>,
       <<<<"F","U","N","C">>, "Func">>,
       <<<<"E","N","D","F","U","N","C">>, "EndFunc">>,
       <<<<"L","O","C","A","L">>, "Local">>,
       <<<<"V","A","R">>, "Var">>,
       <<<<"P","E","R","S">>, "Pers">>,
       <<<<"I","N","O","U","T">>, "Inout">>,
       <<<<"I","F">>, "If">>,
       <<<<"T","H","E","N">>, "Then">>,
       <<<<"E","L","S","E","I","F">>, "ElseIf">>,
       <<<<"E","N","D","I","F">>, "EndIf">>,
       <<<<"W","H","I","L","E">>, "While">>,
       <<<<"E","N","D","W","H","I","L","E">>, "EndWhile">>,
       <<<<"F","O","R">>, "For">>,
       <<<<"E","N","D","F","O","R">>, "EndFor">>,
       <<<<"R","E","T","U","R","N">>, "Return">>,
       <<<<"T","P","W","R","I","T","E">>, "TpWrite">>,
       <<<<"T","R","U","E">>, "True">>,
       <<<<"F","A","L","S","E">>, "False">>,
       <<<<"n","u","m">>, "NumType">>,
       <<<<"s","t","r","i","n","g">>, "StringType">>,
       <<<<"b","o","o","l">>, "BoolType">> >>

----------------------------------------------------------------------------
(* lexer::parse, one iteration of the 'outer loop at a time *)

\* The entries of the table whose spelling prefixes the slice, ignoring case
PrefixMatches(table, slice) ==
    {k \in DOMAIN table :
        /\ Len(table[k][1]) <= Len(slice)
        /\ EqIgnoreAsciiCase(Slice(slice, 0, Len(table[k][1])), table[k][1])}

\* The least of a set of indices, 0 for the empty set
MinOf(m) == IF m = {} THEN 0 ELSE CHOOSE k \in m : \A j \in m : k <= j

\* The greatest of a set of indices, 0 for the empty set
MaxOf(m) == IF m = {} THEN 0 ELSE CHOOSE k \in m : \A j \in m : k >= j

\* The table walked from its last entry to its first
FirstTableMatch_Reversed(slice) == MaxOf(PrefixMatches(DEFAULT_TOKENS, slice))

\* for token in DEFAULT_TOKENS: the first entry that matches, 0 if none
FirstTableMatch(slice) == MinOf(PrefixMatches(DEFAULT_TOKENS, slice))

IsQuote(c) == c = "\""

NotNumChar(c) == ~IsDigit(c) /\ c # "."

NotIdChar(c) == ~IsLetter(c) /\ ~IsDigit(c) /\ c # "_"

\* What one iteration does at the slice &contents[idx..]:
\*   [kind |-> "skip", adv]       whitespace or newline
\*   [kind |-> "push", tok, adv]  a token is pushed
\*   [kind |-> "panic"]           panic!, or a slice whose begin exceeds its end

\* A table entry matched
ScanTable(entry) ==
    IF entry[2] \in {"Whitespace", "Newline"}
    THEN [kind |-> "skip", adv |-> Len(entry[1])]
    ELSE [kind |-> "push", tok |-> Tok(entry[2]), adv |-> Len(entry[1])]

\* The string scanner, idx2 being slice[1..].find('"')
ScanString(slice, idx2) ==
    IF idx2 = -1 THEN [kind |-> "panic"]
    ELSE IF idx2 < 1 THEN [kind |-> "panic"]
    ELSE [kind |-> "push", tok |-> StringValue(Slice(slice, 1, idx2)),
          adv |-> idx2 + 1]

\* The number scanner, idx2 being the index of the first character that is
\* neither numeric nor a period
ScanNum(slice, idx2) ==
    IF idx2 = -1 THEN [kind |-> "panic"]
    ELSE [kind |-> "push", tok |-> NumValue(Slice(slice, 0, idx2)),
          adv |-> idx2]

\* The identifier scanner, idx2 being the index of the first character that
\* is neither alphanumeric nor an underscore
ScanId(slice, idx2) ==
    IF idx2 = -1 THEN [kind |-> "panic"]
    ELSE [kind |-> "push", tok |-> Id(Slice(slice, 0, idx2)), adv |-> idx2]

\* The body of the loop, k being the first table entry that matches
ScanFrom(slice, k) ==
    IF k # 0 THEN ScanTable(DEFAULT_TOKENS[k])
    ELSE IF slice[1] = "\""
    THEN ScanString(slice,
             Find({i \in 1..(Len(slice) - 1) : IsQuote(slice[i + 1])}))
    ELSE IF IsDigit(slice[1])
    THEN ScanNum(slice, Find({i \in DOMAIN slice : NotNumChar(slice[i])}))
    ELSE IF IsLetter(slice[1])
    THEN ScanId(slice, Find({i \in DOMAIN slice : NotIdChar(slice[i])}))
    ELSE [kind |-> "panic"]

ScanAt(slice) == ScanFrom(slice, FirstTableMatch(slice))

\* The effect of one iteration on the lexer's state
LexApply(r) ==
    /\ lexpc' = IF r.kind = "panic" THEN "panic" ELSE "scan"
    /\ idx' = IF r.kind = "panic" THEN idx ELSE idx + r.adv
    /\ tokens' = IF r.kind = "push" THEN Append(tokens, r.tok) ELSE tokens

\* One iteration of 'outer: while idx < contents.len()
LexStep ==
    /\ lexpc = "scan"
    /\ idx < Len(contents)
    /\ LexApply(ScanAt(Slice(contents, idx, Len(contents))))
    /\ UNCHANGED <<contents>>
    /\ UNCHANGED parsevars

\* The loop ends and the tokens are returned
LexReturn ==
    /\ lexpc = "scan"
    /\ idx >= Len(contents)
    /\ lexpc' = "returned"
    /\ UNCHANGED <<contents, idx, tokens>>
    /\ UNCHANGED parsevars

----------------------------------------------------------------------------
(* enum Variable and its operators *)

Void == [tag |-> "Void"]

Bool(b) == [tag |-> "Bool", b |-> b]

Str(s) == [tag |-> "Str", str |-> s]

\* The value of a panic! that unwinds through an expression
Panicked == [tag |-> "Panic"]

RECURSIVE GCD(_, _)
GCD(a, b) == IF b = 0 THEN a ELSE GCD(b, a % b)

NaN == [tag |-> "Num", s |-> 1, n |-> 0, d |-> 0]

Reduced(s, n, d, g) == [tag |-> "Num", s |-> s, n |-> n \div g, d |-> d \div g]

\* The f64 s * n / d, in lowest terms
Num(s, n, d) == IF n = 0 /\ d = 0 THEN NaN ELSE Reduced(s, n, d, GCD(n, d))

\* The f64 of the signed fraction m / d, m # 0
NumSigned(m, d) == IF m < 0 THEN Num(-1, -m, d) ELSE Num(1, m, d)

Zero(s) == [tag |-> "Num", s |-> s, n |-> 0, d |-> 1]

NumInt(k) == IF k = 0 THEN Zero(1) ELSE NumSigned(k, 1)

IsNaN(x) == x.n = 0 /\ x.d = 0

IsInf(x) == x.n # 0 /\ x.d = 0

NumNeg(x) == IF IsNaN(x) THEN NaN ELSE [x EXCEPT !.s = -x.s]

\* The sum of two finite f64, m being its numerator over x.d * y.d
FiniteSum(x, y, m) ==
    IF m = 0 THEN Zero(IF x.s = -1 /\ y.s = -1 THEN -1 ELSE 1)
    ELSE NumSigned(m, x.d * y.d)

\* n1 + n2 on f64
NumAdd(x, y) ==
    IF IsNaN(x) \/ IsNaN(y) THEN NaN
    ELSE IF IsInf(x) /\ IsInf(y) THEN (IF x.s = y.s THEN x ELSE NaN)
    ELSE IF IsInf(x) THEN x
    ELSE IF IsInf(y) THEN y
    ELSE FiniteSum(x, y, x.s * x.n * y.d + y.s * y.n * x.d)

\* n1 - n2 on f64
NumSub(x, y) == NumAdd(x, NumNeg(y))

\* n1 * n2 on f64
NumMul(x, y) ==
    IF IsNaN(x) \/ IsNaN(y) THEN NaN
    ELSE Num(x.s * y.s, x.n * y.n, x.d * y.d)

\* n1 / n2 on f64
NumDiv(x, y) ==
    IF IsNaN(x) \/ IsNaN(y) THEN NaN
    ELSE Num(x.s * y.s, x.n * y.d, x.d * y.n)

\* impl ops::Add for Variable
VarAdd(x, y) ==
    IF x.tag = "Bool" /\ y.tag = "Bool" THEN Bool(x.b \/ y.b)
    ELSE IF x.tag = "Num" /\ y.tag = "Num" THEN NumAdd(x, y)
    ELSE IF x.tag = "Str" /\ y.tag = "Str" THEN Str(x.str \o y.str)
    ELSE Panicked

\* impl ops::Sub for Variable
VarSub(x, y) ==
    IF x.tag = "Num" /\ y.tag = "Num" THEN NumSub(x, y) ELSE Panicked

\* impl ops::Mul for Variable
VarMul(x, y) ==
    IF x.tag = "Num" /\ y.tag = "Num" THEN NumMul(x, y) ELSE Panicked

\* impl ops::Div for Variable
VarDiv(x, y) ==
    IF x.tag = "Num" /\ y.tag = "Num" THEN NumDiv(x, y) ELSE Panicked

\* Variable::set: the new value of self, or Panicked
VarSet(self, other) ==
    IF self.tag = other.tag /\ self.tag \in {"Bool", "Num", "Str"}
    THEN other
    ELSE Panicked

RECURSIVE DigitsValue(_)
DigitsValue(s) ==
    IF s = <<>> THEN 0
    ELSE 10 * DigitsValue(SubSeq(s, 1, Len(s) - 1)) + DigitValue(s[Len(s)])

RECURSIVE Pow10(_)
Pow10(k) == IF k = 0 THEN 1 ELSE 10 * Pow10(k - 1)

IsDot(c) == c = "."

\* The f64 of digits, a period at 0-based index p, and digits
ParseFraction(val, p) ==
    Num(1, DigitsValue(Slice(val, 0, p) \o Slice(val, p + 1, Len(val))),
        Pow10(Len(val) - p - 1))

\* val.parse::<f64>().unwrap() on a text of digits and periods: the number,
\* or Panicked when the text holds no digit or more than one period
ParseUnwrap(val) ==
    IF Cardinality({i \in DOMAIN val : val[i] = "."}) > 1 THEN Panicked
    ELSE IF \A i \in DOMAIN val : val[i] = "." THEN Panicked
    ELSE IF \A i \in DOMAIN val : val[i] # "."
    THEN Num(1, DigitsValue(val), 1)
    ELSE ParseFraction(val, Find({i \in DOMAIN val : IsDot(val[i])}))

IsTypeToken(token) == token.t \in {"NumType", "BoolType", "StringType"}

Error(msg, token) == [msg |-> msg, tok |-> token]

\* Variable::from
VariableFrom(data_type) ==
    IF data_type.t = "NumType" THEN [kind |-> "Ok", var |-> NumInt(0)]
    ELSE IF data_type.t = "BoolType" THEN [kind |-> "Ok", var |-> Bool(FALSE)]
    ELSE IF data_type.t = "StringType" THEN [kind |-> "Ok", var |-> Str(<<>>)]
    ELSE [kind |-> "Err", err |-> Error("Unknown data type", None)]

\* The Variable of an unwrapped number, or the panic of the unwrap
Unwrapped(x) ==
    IF x = Panicked THEN [kind |-> "Panic"] ELSE [kind |-> "Ok", var |-> x]

\* Variable::from_value
VariableFromValue(data_type, value) ==
    IF data_type.t = "BoolType" /\ value.t = "True"
    THEN [kind |-> "Ok", var |-> Bool(TRUE)]
    ELSE IF data_type.t = "BoolType" /\ value.t = "False"
    THEN [kind |-> "Ok", var |-> Bool(FALSE)]
    ELSE IF data_type.t = "NumType" /\ value.t = "NumValue"
    THEN Unwrapped(ParseUnwrap(value.v))
    ELSE IF data_type.t = "StringType" /\ value.t = "StringValue"
    THEN [kind |-> "Ok", var |-> Str(value.v)]
    ELSE [kind |-> "Err", err |-> Error("Unknown data type", None)]

----------------------------------------------------------------------------
(* enum Node *)

NodeValue(var) == [k |-> "Value", var |-> var]

NodeVar(i) == [k |-> "Var", idx |-> i]

NodePrint(i) == [k |-> "Print", idx |-> i]

NodeBin(k, lhs, rhs) == [k |-> k, lhs |-> lhs, rhs |-> rhs]

NodeAssign(lhs, rhs) == [k |-> "Assign", lhs |-> lhs, rhs |-> rhs]

----------------------------------------------------------------------------
(* The token iterator: p is the number of tokens it has yielded *)

NextTok(toks, p) == IF p < Len(toks) THEN toks[p + 1] ELSE None

Adv(toks, p) == IF p < Len(toks) THEN p + 1 ELSE p

\* HashMap::insert
MapInsert(map, name, value) ==
    [n \in (DOMAIN map) \cup {name} |-> IF n = name THEN value ELSE map[n]]

----------------------------------------------------------------------------
(* parse_arg, parse_var, parse_statement, parse_sub.  Each returns        *)
(*   [kind |-> "Ok", ..., pos], [kind |-> "Err", err, pos] or             *)
(*   [kind |-> "Panic", pos], pos being the tokens yielded at the return. *)

\* Ok((name.clone(), v?)) for the Variable result v
Declared(name, v, p) ==
    IF v.kind = "Ok"
    THEN [kind |-> "Ok", name |-> name, var |-> v.var, pos |-> p]
    ELSE IF v.kind = "Panic" THEN [kind |-> "Panic", pos |-> p]
    ELSE [kind |-> "Err", err |-> v.err, pos |-> p]

\* parse_arg
parse_arg(toks, p, data_type) ==
    IF NextTok(toks, p).t # "Id"
    THEN [kind |-> "Err", err |-> Error("Expected var name", None),
          pos |-> Adv(toks, p)]
    ELSE Declared(NextTok(toks, p).v, VariableFrom(data_type), Adv(toks, p))

\* parse_var, after the name: p is the number of tokens yielded with it
parse_var_init(toks, p, data_type, name) ==
    IF NextTok(toks, p).t = "Semicolon"
    THEN Declared(name, VariableFrom(data_type), p + 1)
    ELSE IF NextTok(toks, p).t # "Assign"
    THEN [kind |-> "Err", pos |-> Adv(toks, p),
          err |-> Error("Expected assign or semicolon", None)]
    ELSE IF NextTok(toks, p + 1) = None
    THEN [kind |-> "Err", err |-> Error("Expected value", None),
          pos |-> p + 1]
    ELSE IF NextTok(toks, p + 2).t # "Semicolon"
    THEN [kind |-> "Err", err |-> Error("Expected value", None),
          pos |-> Adv(toks, p + 2)]
    ELSE Declared(name, VariableFromValue(data_type, NextTok(toks, p + 1)),
                  p + 3)

\* parse_var
parse_var(toks, p) ==
    IF NextTok(toks, p) = None
    THEN [kind |-> "Err", err |-> Error("Expected data type", None), pos |-> p]
    ELSE IF NextTok(toks, p + 1).t # "Id"
    THEN [kind |-> "Err", err |-> Error("Expected var name", None),
          pos |-> Adv(toks, p + 1)]
    ELSE parse_var_init(toks, p + 2, NextTok(toks, p), NextTok(toks, p + 1).v)

\* Node::Value(Variable::Num(val.parse().unwrap()))
OperandNum(x) ==
    IF x = Panicked THEN [kind |-> "Panic"]
    ELSE [kind |-> "Ok", node |-> NodeValue(x)]

\* The operand match of parse_statement and of parse_sub
Operand(token, vars_map) ==
    IF token.t = "NumValue" THEN OperandNum(ParseUnwrap(token.v))
    ELSE IF token.t = "StringValue"
    THEN [kind |-> "Ok", node |-> NodeValue(Str(token.v))]
    ELSE IF token.t = "True" THEN [kind |-> "Ok", node |-> NodeValue(Bool(TRUE))]
    ELSE IF token.t = "False" THEN [kind |-> "Ok", node |-> NodeValue(Bool(FALSE))]
    ELSE IF token.t = "Id"
    THEN IF token.v \in DOMAIN vars_map
         THEN [kind |-> "Ok", node |-> NodeVar(vars_map[token.v].idx)]
         ELSE [kind |-> "Err", err |-> Error("Unknown id", None)]
    ELSE [kind |-> "Err", err |-> Error("Invalid token for statement", token)]

\* Node::Op.. { lhs, rhs: parse_sub(..)? }
WrapRhs(k, lhs_node, sub) ==
    IF sub.kind = "Ok"
    THEN [kind |-> "Ok", pos |-> sub.pos, node |-> NodeBin(k, lhs_node, sub.node)]
    ELSE sub

RECURSIVE parse_sub(_, _, _, _)

\* Every operator deferring by recursion, as + and - do
parse_sub_op_AllDefer(toks, p, vars_map, lhs_node, operator, rhs) ==
    IF rhs.kind = "Panic" THEN [kind |-> "Panic", pos |-> p]
    ELSE IF rhs.kind = "Err" THEN [kind |-> "Err", err |-> rhs.err, pos |-> p]
    ELSE IF operator.t = "Add"
    THEN WrapRhs("OpAdd", lhs_node, parse_sub(toks, p, vars_map, rhs.node))
    ELSE IF operator.t = "Minus"
    THEN WrapRhs("OpSub", lhs_node, parse_sub(toks, p, vars_map, rhs.node))
    ELSE IF operator.t = "Multiply"
    THEN WrapRhs("OpMul", lhs_node, parse_sub(toks, p, vars_map, rhs.node))
    ELSE IF operator.t = "Divide"
    THEN WrapRhs("OpDiv", lhs_node, parse_sub(toks, p, vars_map, rhs.node))
    ELSE [kind |-> "Err", pos |-> p,
          err |-> Error("Invalid token for statement", operator)]

\* Every operator combining at once, as * and / do
parse_sub_op_AllCombine(toks, p, vars_map, lhs_node, operator, rhs) ==
    IF rhs.kind = "Panic" THEN [kind |-> "Panic", pos |-> p]
    ELSE IF rhs.kind = "Err" THEN [kind |-> "Err", err |-> rhs.err, pos |-> p]
    ELSE IF operator.t = "Add"
    THEN parse_sub(toks, p, vars_map, NodeBin("OpAdd", lhs_node, rhs.node))
    ELSE IF operator.t = "Minus"
    THEN parse_sub(toks, p, vars_map, NodeBin("OpSub", lhs_node, rhs.node))
    ELSE IF operator.t = "Multiply"
    THEN parse_sub(toks, p, vars_map, NodeBin("OpMul", lhs_node, rhs.node))
    ELSE IF operator.t = "Divide"
    THEN parse_sub(toks, p, vars_map, NodeBin("OpDiv", lhs_node, rhs.node))
    ELSE [kind |-> "Err", pos |-> p,
          err |-> Error("Invalid token for statement", operator)]

\* parse_sub, from the operand match on: rhs is its result, p the number of
\* tokens yielded with the operand
parse_sub_op(toks, p, vars_map, lhs_node, operator, rhs) ==
    IF rhs.kind = "Panic" THEN [kind |-> "Panic", pos |-> p]
    ELSE IF rhs.kind = "Err" THEN [kind |-> "Err", err |-> rhs.err, pos |-> p]
    ELSE IF operator.t = "Add"
    THEN WrapRhs("OpAdd", lhs_node, parse_sub(toks, p, vars_map, rhs.node))
    ELSE IF operator.t = "Minus"
    THEN WrapRhs("OpSub", lhs_node, parse_sub(toks, p, vars_map, rhs.node))
    ELSE IF operator.t = "Multiply"
    THEN parse_sub(toks, p, vars_map, NodeBin("OpMul", lhs_node, rhs.node))
    ELSE IF operator.t = "Divide"
    THEN parse_sub(toks, p, vars_map, NodeBin("OpDiv", lhs_node, rhs.node))
    ELSE [kind |-> "Err", pos |-> p,
          err |-> Error("Invalid token for statement", operator)]

\* parse_sub
parse_sub(toks, p, vars_map, lhs_node) ==
    IF NextTok(toks, p).t = "Semicolon"
    THEN [kind |-> "Ok", node |-> lhs_node, pos |-> p + 1]
    ELSE IF NextTok(toks, p) = None
    THEN [kind |-> "Err", err |-> Error("Expected operator", None), pos |-> p]
    ELSE IF NextTok(toks, p + 1) = None
    THEN [kind |-> "Err", err |-> Error("Unexpected token", None),
          pos |-> p + 1]
    ELSE parse_sub_op(toks, p + 2, vars_map, lhs_node, NextTok(toks, p),
                      Operand(NextTok(toks, p + 1), vars_map))

\* Ok(Node::Assign { lhs, rhs: parse_sub(..)? })
WrapAssign(lhs_node, sub) ==
    IF sub.kind = "Ok"
    THEN [kind |-> "Ok", pos |-> sub.pos, node |-> NodeAssign(lhs_node, sub.node)]
    ELSE sub

\* parse_statement, from the operand match on
parse_statement_rhs(toks, p, vars_map, lhs_node, rhs) ==
    IF rhs.kind = "Panic" THEN [kind |-> "Panic", pos |-> p]
    ELSE IF rhs.kind = "Err" THEN [kind |-> "Err", err |-> rhs.err, pos |-> p]
    ELSE WrapAssign(lhs_node, parse_sub(toks, p, vars_map, rhs.node))

\* parse_statement
parse_statement(toks, p, vars_map, lhs_node) ==
    IF NextTok(toks, p).t # "Assign"
    THEN [kind |-> "Err", pos |-> Adv(toks, p),
          err |-> Error("Expected variable assignment", None)]
    ELSE IF NextTok(toks, p + 1) = None
    THEN [kind |-> "Err", err |-> Error("Unexpected token", None),
          pos |-> p + 1]
    ELSE parse_statement_rhs(toks, p + 2, vars_map, lhs_node,
                             Operand(NextTok(toks, p + 1), vars_map))

----------------------------------------------------------------------------
(* Node::eval and Node::assign *)

\* stack.variables.get(stack.offset + idx) is Some
StackHas(stk, i) == stk.offset + i < Len(stk.variables)

StackGet(stk, i) == stk.variables[stk.offset + i + 1]

\* var.set(other) on the slot at position i, v being the value set
SlotSet(stk, i, v) ==
    IF v = Panicked THEN [kind |-> "Panic"]
    ELSE [kind |-> "Ok",
          stack |-> [stk EXCEPT !.variables[stk.offset + i + 1] = v]]

\* Node::assign: [kind, stack]
NodeAssignTo(lhs, stk, other) ==
    IF lhs.k # "Var" THEN [kind |-> "Panic"]
    ELSE IF ~StackHas(stk, lhs.idx) THEN [kind |-> "Ok", stack |-> stk]
    ELSE SlotSet(stk, lhs.idx, VarSet(StackGet(stk, lhs.idx), other))

BinOp(k, x, y) ==
    IF k = "OpAdd" THEN VarAdd(x, y)
    ELSE IF k = "OpSub" THEN VarSub(x, y)
    ELSE IF k = "OpMul" THEN VarMul(x, y)
    ELSE VarDiv(x, y)

\* The result of eval: [kind, var, stack, out], out being the lines printed
Evaluated(v, stk, o) ==
    IF v = Panicked THEN [kind |-> "Panic", stack |-> stk, out |-> o]
    ELSE [kind |-> "Ok", var |-> v, stack |-> stk, out |-> o]

\* Node::Assign, r being rhs.eval(stack) and a the result of lhs.assign
EvalAssigned(r, a) ==
    IF a.kind = "Panic" THEN [kind |-> "Panic", stack |-> r.stack, out |-> r.out]
    ELSE [kind |-> "Ok", var |-> Void, stack |-> a.stack, out |-> r.out]

EvalAssign(lhs, r) ==
    IF r.kind = "Panic" THEN r
    ELSE EvalAssigned(r, NodeAssignTo(lhs, r.stack, r.var))

\* A binary node, l and r being lhs.eval(stack) and rhs.eval(stack)
EvalBin(k, l, r) ==
    IF r.kind = "Panic" THEN r
    ELSE Evaluated(BinOp(k, l.var, r.var), r.stack, r.out)

RECURSIVE Eval(_, _, _)

EvalRhs(node, l) ==
    IF l.kind = "Panic" THEN l
    ELSE EvalBin(node.k, l, Eval(node.rhs, l.stack, l.out))

\* Node::eval
Eval(node, stk, o) ==
    IF node.k = "Assign" THEN EvalAssign(node.lhs, Eval(node.rhs, stk, o))
    ELSE IF node.k \in {"OpAdd", "OpSub", "OpMul", "OpDiv"}
    THEN EvalRhs(node, Eval(node.lhs, stk, o))
    ELSE IF node.k = "Value" THEN Evaluated(node.var, stk, o)
    ELSE IF node.k = "Var"
    THEN IF StackHas(stk, node.idx)
         THEN Evaluated(StackGet(stk, node.idx), stk, o)
         ELSE Evaluated(Panicked, stk, o)
    ELSE IF node.k = "Print"
    THEN IF StackHas(stk, node.idx)
         THEN Evaluated(Void, stk, Append(o, StackGet(stk, node.idx)))
         ELSE Evaluated(Panicked, stk, o)
    ELSE Evaluated(Panicked, stk, o)

----------------------------------------------------------------------------
(* parse_tokens, read_mod, read_proc, test_proc: one loop iteration a step *)

EmptyMap == <<>>

NoRoutine == [name |-> <<>>, variables |-> EmptyMap, nodes |-> <<>>]

NoStack == [offset |-> 0, variables |-> <<>>]

NoError == Error("", None)

\* `?` carrying an Err up to the caller of parse_tokens
ReturnErr(e, p) ==
    /\ result' = "Err"
    /\ err' = e
    /\ pc' = "done"
    /\ pos' = p

\* A panic! unwinding out of parse_tokens
Panic(p) ==
    /\ result' = "Panic"
    /\ pc' = "done"
    /\ pos' = p
    /\ UNCHANGED err

\* parse_tokens: one iteration of while let Some(token) = iter.next()
ParseTokens ==
    /\ lexpc = "returned"
    /\ pc = "parse_tokens"
    /\ LET token == NextTok(tokens, pos) IN
        IF token = None
        THEN /\ result' = "Ok"
             /\ pc' = "done"
             /\ UNCHANGED <<pos, err>>
        ELSE IF token.t = "Mod"
        THEN /\ pc' = "read_mod_name"
             /\ pos' = pos + 1
             /\ UNCHANGED <<result, err>>
        ELSE ReturnErr(Error("Invalid token for program", token), pos + 1)
    /\ UNCHANGED <<modules, module, variables, var_idx, routine, stack, nodei,
                   executed, out>>
    /\ UNCHANGED lexvars

\* read_mod: the module name and the fresh Module
ReadModName ==
    /\ pc = "read_mod_name"
    /\ LET token == NextTok(tokens, pos) IN
        IF token.t = "Id"
        THEN /\ module' = token.v
             /\ pc' = "read_mod"
             /\ pos' = pos + 1
             /\ UNCHANGED <<result, err>>
        ELSE /\ ReturnErr(Error("Expected module name", None),
                          Adv(tokens, pos))
             /\ UNCHANGED module
    /\ UNCHANGED <<modules, variables, var_idx, routine, stack, nodei,
                   executed, out>>
    /\ UNCHANGED lexvars

\* read_mod: one iteration of while let Some(token) = iter.next(); at ENDMOD
\* the module is returned to parse_tokens, which pushes it
ReadMod ==
    /\ pc = "read_mod"
    /\ LET token == NextTok(tokens, pos) IN
        IF token = None
        THEN /\ ReturnErr(Error("Unexpected end of module", None), pos)
             /\ UNCHANGED modules
        ELSE IF token.t = "Proc"
        THEN /\ pc' = "read_proc"
             /\ pos' = pos + 1
             /\ UNCHANGED <<result, err, modules>>
        ELSE IF token.t \in {"Func", "Var", "Pers", "Local"}
        THEN /\ pos' = pos + 1
             /\ UNCHANGED <<pc, result, err, modules>>
        ELSE IF token.t = "EndMod"
        THEN /\ modules' = Append(modules, module)
             /\ pc' = "parse_tokens"
             /\ pos' = pos + 1
             /\ UNCHANGED <<result, err>>
        ELSE /\ ReturnErr(Error("Invalid token for module", token), pos + 1)
             /\ UNCHANGED modules
    /\ UNCHANGED <<module, variables, var_idx, routine, stack, nodei,
                   executed, out>>
    /\ UNCHANGED lexvars

\* read_proc: the routine name, the '(' and the fresh Routine
ReadProcHeader ==
    /\ pc = "read_proc"
    /\ LET name == NextTok(tokens, pos)
           par == NextTok(tokens, pos + 1)
       IN
        IF name.t # "Id"
        THEN /\ ReturnErr(Error("Expected routine name", None),
                          Adv(tokens, pos))
             /\ UNCHANGED <<routine, variables, var_idx>>
        ELSE IF par.t # "LeftPar"
        THEN /\ ReturnErr(Error("Expected '('", None), Adv(tokens, pos + 1))
             /\ UNCHANGED <<routine, variables, var_idx>>
        ELSE /\ routine' = [NoRoutine EXCEPT !.name = name.v]
             /\ var_idx' = 0
             /\ variables' = EmptyMap
             /\ pc' = "read_proc_args"
             /\ pos' = pos + 2
             /\ UNCHANGED <<result, err>>
    /\ UNCHANGED <<modules, module, stack, nodei, executed, out>>
    /\ UNCHANGED lexvars

\* variables.insert(arg.0, (var_idx, arg.1)); var_idx += 1, for the result
\* decl of parse_arg or parse_var
Inserted(map, vi, nodes, decl) ==
    IF decl.kind = "Ok"
    THEN [kind |-> "Continue", pos |-> decl.pos, var_idx |-> vi + 1,
          nodes |-> nodes,
          variables |-> MapInsert(map, decl.name,
                                  [idx |-> vi, var |-> decl.var])]
    ELSE decl

\* read_proc: what one iteration of the argument loop does
ArgStep(toks, p, map, vi) ==
    LET token == NextTok(toks, p) IN
    IF token = None THEN [kind |-> "End", pos |-> p]
    ELSE IF IsTypeToken(token)
    THEN Inserted(map, vi, <<>>, parse_arg(toks, p + 1, token))
    ELSE IF token.t = "RightPar" THEN [kind |-> "End", pos |-> p + 1]
    ELSE [kind |-> "Err", pos |-> p + 1, err |-> Error("Expected ')'", token)]

\* The effect of one iteration of the argument loop on the parser's state
ArgApply(r) ==
    IF r.kind = "Err"
    THEN /\ ReturnErr(r.err, r.pos)
         /\ UNCHANGED <<variables, var_idx>>
    ELSE IF r.kind = "Continue"
    THEN /\ variables' = r.variables
         /\ var_idx' = r.var_idx
         /\ pos' = r.pos
         /\ UNCHANGED <<pc, result, err>>
    ELSE /\ pc' = "read_proc_body"
         /\ pos' = r.pos
         /\ UNCHANGED <<variables, var_idx, result, err>>

\* read_proc: one iteration of the argument loop
ReadProcArg ==
    /\ pc = "read_proc_args"
    /\ ArgApply(ArgStep(tokens, pos, variables, var_idx))
    /\ UNCHANGED <<modules, module, routine, stack, nodei, executed, out>>
    /\ UNCHANGED lexvars

\* routine.nodes.push(parse_statement(..)?)
Pushed(map, vi, nodes, stmt) ==
    IF stmt.kind = "Ok"
    THEN [kind |-> "Continue", pos |-> stmt.pos, var_idx |-> vi,
          nodes |-> Append(nodes, stmt.node), variables |-> map]
    ELSE stmt

\* The loop goes on with p tokens yielded
Continue(p, map, vi, nodes) ==
    [kind |-> "Continue", pos |-> p, var_idx |-> vi, nodes |-> nodes,
     variables |-> map]

\* read_proc: what one iteration of the body loop does
BodyStep(toks, p, map, vi, nodes) ==
    LET token == NextTok(toks, p)
        arg == NextTok(toks, p + 1)
    IN
    IF token = None
    THEN [kind |-> "Err", pos |-> p,
          err |-> Error("Unexpected end of routine", None)]
    ELSE IF token.t = "Var"
    THEN Inserted(map, vi, nodes, parse_var(toks, p + 1))
    ELSE IF token.t = "Id"
    THEN IF token.v \in DOMAIN map
         THEN Pushed(map, vi, nodes,
                     parse_statement(toks, p + 1, map,
                                     NodeVar(map[token.v].idx)))
         ELSE Continue(p + 1, map, vi, nodes)
    ELSE IF token.t \in {"If", "While", "For", "Return"}
    THEN Continue(p + 1, map, vi, nodes)
    ELSE IF token.t = "TpWrite"
    THEN IF arg.t = "Id" /\ arg.v \in DOMAIN map
         THEN Continue(Adv(toks, p + 2), map, vi,
                       Append(nodes, NodePrint(map[arg.v].idx)))
         ELSE Continue(Adv(toks, Adv(toks, p + 1)), map, vi, nodes)
    ELSE IF token.t = "EndProc"
    THEN [kind |-> "Return", pos |-> p + 1, var_idx |-> vi, nodes |-> nodes,
          variables |-> map]
    ELSE [kind |-> "Err", pos |-> p + 1,
          err |-> Error("Invalid token for routine", token)]

\* The effect of one iteration of the body loop on the parser's state
BodyApply(r) ==
    IF r.kind = "Err"
    THEN /\ ReturnErr(r.err, r.pos)
         /\ UNCHANGED <<variables, var_idx, routine>>
    ELSE IF r.kind = "Panic"
    THEN /\ Panic(r.pos)
         /\ UNCHANGED <<variables, var_idx, routine>>
    ELSE /\ variables' = r.variables
         /\ var_idx' = r.var_idx
         /\ routine' = [routine EXCEPT
                           !.nodes = r.nodes,
                           !.variables = IF r.kind = "Return"
                                         THEN r.variables ELSE @]
         /\ pc' = IF r.kind = "Return" THEN "test_proc" ELSE pc
         /\ pos' = r.pos
         /\ UNCHANGED <<result, err>>

\* read_proc: one iteration of the body loop; at ENDPROC the routine is
\* returned to read_mod, which hands it to test_proc
ReadProcBody ==
    /\ pc = "read_proc_body"
    /\ BodyApply(BodyStep(tokens, pos, variables, var_idx, routine.nodes))
    /\ UNCHANGED <<modules, module, stack, nodei, executed, out>>
    /\ UNCHANGED lexvars

\* The orders in which a HashMap of these keys may be iterated
IterOrders(map) ==
    {f \in [1..Cardinality(DOMAIN map) -> DOMAIN map] :
        \A i, j \in DOMAIN f : i # j => f[i] # f[j]}

\* test_proc: the frame pushed by for var in routine.variables
FrameOf(map, order) ==
    [i \in 1..Cardinality(DOMAIN map) |-> map[order[i]].var]

\* test_proc: the Stack is built, in the iteration order of the HashMap
TestProcFrame ==
    /\ pc = "test_proc"
    /\ \E order \in IterOrders(routine.variables) :
        stack' = [offset |-> 0,
                  variables |-> FrameOf(routine.variables, order)]
    /\ nodei' = 0
    /\ pc' = IF routine.nodes = <<>> THEN "read_mod" ELSE "test_proc_eval"
    /\ UNCHANGED <<pos, result, err, modules, module, variables, var_idx,
                   routine, executed, out>>
    /\ UNCHANGED lexvars

\* The effect of node.eval(&mut stack) on the state
EvalApply(r) ==
    /\ stack' = r.stack
    /\ out' = r.out
    /\ nodei' = nodei + 1
    /\ executed' = executed + 1
    /\ IF r.kind = "Panic"
       THEN Panic(pos)
       ELSE /\ pc' = IF nodei + 1 = Len(routine.nodes) THEN "read_mod" ELSE pc
            /\ UNCHANGED <<pos, result, err>>

\* test_proc: one iteration of for node in routine.nodes
TestProcEval ==
    /\ pc = "test_proc_eval"
    /\ EvalApply(Eval(routine.nodes[nodei + 1], stack, out))
    /\ UNCHANGED <<modules, module, variables, var_idx, routine>>
    /\ UNCHANGED lexvars

----------------------------------------------------------------------------
(* Inputs *)

MaxSrcLen == 3

MaxOps == 2

MaxParams == 2

MaxStmts == 2

\* The sequences over S of length at most n
RECURSIVE SeqsUpTo(_, _)
SeqsUpTo(S, n) ==
    IF n = 0 THEN {<<>>}
    ELSE SeqsUpTo(S, n - 1) \cup
         {Append(q, x) : q \in {r \in SeqsUpTo(S, n - 1) : Len(r) = n - 1},
                         x \in S}

RECURSIVE Flatten(_)
Flatten(ss) == IF ss = <<>> THEN <<>> ELSE ss[1] \o Flatten(Tail(ss))

Prefixes(S) == UNION {{SubSeq(q, 1, k) : k \in 0..Len(q)} : q \in S}

\* The characters the sources of the lexer runs are made of
LexChars == {"<", ">", "=", "a", "1", ".", "\"", " ", "#"}

\* Words that begin with the letters of a keyword or of a type name, the
\* keywords themselves, and words that do not
WordInputs ==
    { <<"f", "o", "r", "m", "a", "t">>,
      <<"n", "u", "m", "b", "e", "r">>,
      <<"v", "a", "r", "i", "a", "b", "l", "e">>,
      <<"i", "f", "f", "y">>,
      <<"I", "f", "_", "1">>,
      <<"i", "f">>,
      <<"F", "o", "r">>,
      <<"n", "T", "e", "s", "t", "1">>,
      <<"x", "_", "1">> }

\* What follows a word in the source
WordEnds == {<<" ">>, <<";">>, <<":", "=", "1", ";">>}

\* A word in quotes, as a string literal
Quoted(w) == <<"\"">> \o w \o <<"\"">>

\* The sources of the lexer runs: every short text over LexChars, every word
\* followed by one of the ends, and every word in quotes followed by one
LexInputs ==
    SeqsUpTo(LexChars, MaxSrcLen)
    \cup {w \o e : w \in WordInputs, e \in WordEnds}
    \cup {Quoted(w) \o e : w \in WordInputs, e \in WordEnds}

NameA == <<"a">>

NameB == <<"b">>

NTest1 == <<"n", "T", "e", "s", "t", "1">>

Lit(k) == NumValue(<<Digits[k + 1]>>)

\* MOD Testmodule PROC rTest(
ModHead == <<Tok("Mod"), Id(<<"m">>)>>

ProcHead == <<Tok("Proc"), Id(<<"p">>), Tok("LeftPar")>>

\* Parameter lists of at most MaxParams parameters, written with and without
\* a comma between two parameters
ParamInputs ==
    LET one == {<<Tok("NumType"), Id(n)>> : n \in {NameA, NameB}}
        lists == SeqsUpTo(one, MaxParams)
        Joined(l, sep) ==
            Flatten([i \in DOMAIN l |-> IF i = 1 THEN l[i] ELSE sep \o l[i]])
    IN {Joined(l, <<>>) : l \in lists} \cup
       {Joined(l, <<Tok("Comma")>>) : l \in lists}

\* The statements of the procedure bodies
StmtInputs ==
    { <<Tok("Var"), Tok("NumType"), Id(NameA), Tok("Semicolon")>>,
      <<Tok("Var"), Tok("NumType"), Id(NameB), Tok("Assign"), Lit(2),
        Tok("Semicolon")>>,
      <<Id(NameA), Tok("Assign"), Id(NameB), Tok("Add"), Lit(1),
        Tok("Semicolon")>>,
      <<Id(NameB), Tok("Assign"), Tok("True"), Tok("Semicolon")>>,
      <<Tok("TpWrite"), Id(NameA), Tok("Semicolon")>>,
      <<Tok("TpWrite"), Id(NameB), Tok("Semicolon")>> }

BodyInputs == {Flatten(b) : b \in SeqsUpTo(StmtInputs, MaxStmts)}

\* What follows ENDPROC
TailInputs == { <<>>, <<Tok("EndMod")>>, <<Tok("RightPar")>> }

\* The token sequences of the parser runs: a module with one procedure of the
\* given parameter lists and bodies, and every such sequence cut short
ProgramInputs(params, bodies) ==
    Prefixes({ModHead \o ProcHead \o a \o <<Tok("RightPar")>> \o b
                  \o <<Tok("EndProc")>> \o t :
              a \in params, b \in bodies, t \in TailInputs})

\* The operands and operators of the expressions
OperandInputs == {Lit(2), Lit(3), Id(NTest1)}

OperatorInputs == {Tok("Add"), Tok("Minus"), Tok("Multiply"), Tok("Divide")}

\* operand (operator operand)*, with exactly n operators
RECURSIVE ExprsOf(_)
ExprsOf(n) ==
    IF n = 0 THEN {<<x>> : x \in OperandInputs}
    ELSE {e \o <<o, x>> : e \in ExprsOf(n - 1), o \in OperatorInputs,
                          x \in OperandInputs}

\* 2 + 2 * 3 * 4 + 1, of main
MainExpr ==
    <<Lit(2), Tok("Add"), Lit(2), Tok("Multiply"), Lit(3), Tok("Multiply"),
      Lit(4), Tok("Add"), Lit(1)>>

\* 10 - 3 + 2
ChainExpr ==
    <<NumValue(<<"1", "0">>), Tok("Minus"), Lit(3), Tok("Add"), Lit(2)>>

ExprInputs ==
    UNION {ExprsOf(n) : n \in 0..MaxOps} \cup {MainExpr, ChainExpr}

\* MOD m PROC p() VAR num nTest1 := 0; nTest1 :=
PreExpr ==
    ModHead \o ProcHead \o
    <<Tok("RightPar"), Tok("Var"), Tok("NumType"), Id(NTest1), Tok("Assign"),
      Lit(0), Tok("Semicolon"), Id(NTest1), Tok("Assign")>>

\* ; TPWRITE nTest1; ENDPROC ENDMOD
PostExpr ==
    <<Tok("Semicolon"), Tok("TpWrite"), Id(NTest1), Tok("Semicolon"),
      Tok("EndProc"), Tok("EndMod")>>

\* The program of main, with the expression e in the assignment
ExprProgram(e) == PreExpr \o e \o PostExpr

\* The spelling of a token in a source text
Spelling(token) ==
    IF token.t \in {"Id", "NumValue"} THEN token.v
    ELSE IF token.t = "StringValue" THEN <<"\"">> \o token.v \o <<"\"">>
    ELSE DEFAULT_TOKENS[CHOOSE k \in DOMAIN DEFAULT_TOKENS :
                            DEFAULT_TOKENS[k][2] = token.t][1]

\* A source text the tokens come from: every token followed by a space
SourceOf(toks) == Flatten([i \in DOMAIN toks |-> Spelling(toks[i]) \o <<" ">>])

----------------------------------------------------------------------------
(* Specifications *)

ParserInit ==
    /\ pos = 0
    /\ pc = "parse_tokens"
    /\ result = "running"
    /\ err = NoError
    /\ modules = <<>>
    /\ module = <<>>
    /\ variables = EmptyMap
    /\ var_idx = 0
    /\ routine = NoRoutine
    /\ stack = NoStack
    /\ nodei = 0
    /\ executed = 0
    /\ out = <<>>

\* lexer::parse has returned the tokens of a source and parse_tokens begins
InitOn(inputs) ==
    /\ tokens \in inputs
    /\ contents = SourceOf(tokens)
    /\ idx = Len(contents)
    /\ lexpc = "returned"
    /\ ParserInit

Init == InitOn(ProgramInputs(ParamInputs, BodyInputs))

Next ==
    \/ ParseTokens
    \/ ReadModName
    \/ ReadMod
    \/ ReadProcHeader
    \/ ReadProcArg
    \/ ReadProcBody
    \/ TestProcFrame
    \/ TestProcEval

\* The parser and the evaluator on modules of one procedure
Spec == Init /\ [][Next]_vars

InitExpr == InitOn({ExprProgram(e) : e \in ExprInputs})

\* The parser and the evaluator on the program of main, over expressions
SpecExpr == InitExpr /\ [][Next]_vars

\* lexer::parse begins on a source
InitLex ==
    /\ contents \in LexInputs
    /\ idx = 0
    /\ lexpc = "scan"
    /\ tokens = <<>>
    /\ ParserInit

NextLex ==
    \/ LexStep
    \/ LexReturn

\* The lexer on short sources
SpecLex == InitLex /\ [][NextLex]_vars

----------------------------------------------------------------------------
(* Properties *)

\* read_proc has returned Ok(routine)
ProcParsed == pc \in {"test_proc", "test_proc_eval"}

\* test_proc has built the frame of the routine and has evaluated no node yet
FrameBuilt == pc = "test_proc_eval" /\ nodei = 0

\* test_proc has returned: every node of the routine has been evaluated
ProcExecuted ==
    /\ pc = "read_mod"
    /\ routine # NoRoutine
    /\ nodei = Len(routine.nodes)

\* The variable to which the parser assigned slot i
SlotsOf(map, i) == {n \in DOMAIN map : map[n].idx = i}

\* C1: when a parsed procedure is executed, the frame holds at position
\* offset + i the value of the variable to which the parser assigned slot i,
\* for every slot i the parser allocated.
C1_FrameHoldsSlots ==
    FrameBuilt =>
        \A i \in 0..(var_idx - 1) :
            /\ SlotsOf(routine.variables, i) # {}
            /\ StackHas(stack, i)
            /\ \A n \in SlotsOf(routine.variables, i) :
                   StackGet(stack, i) = routine.variables[n].var

\* C2: if parse_tokens returns an error, no statement of any procedure has
\* been executed before: no node evaluated, no diagnostic line emitted.
C2_NoExecutionBeforeError ==
    result = "Err" => executed = 0 /\ out = <<>>

\* C5: the pipeline never terminates abruptly: neither the tokenizer nor the
\* parser and evaluator end in a panic.
C5_NeverAborts == lexpc # "panic" /\ result # "Panic"

\* Position j of toks holds an identifier that is used, not declared: it
\* follows neither MOD or PROC nor a type keyword
IsUse(toks, j) ==
    /\ toks[j].t = "Id"
    /\ toks[j - 1].t \notin {"Mod", "Proc", "NumType", "BoolType", "StringType"}

\* Position j of toks holds the name of a parameter or of a declaration
IsDeclaration(toks, j) == toks[j].t = "Id" /\ IsTypeToken(toks[j - 1])

\* Among the first n tokens an identifier is used that no earlier parameter or
\* declaration declared
UsesUndeclared(toks, n) ==
    \E j \in 2..n :
        /\ IsUse(toks, j)
        /\ \A i \in 2..(j - 1) : ~(IsDeclaration(toks, i) /\ toks[i].v = toks[j].v)

\* C6: parsing a procedure returns an error whenever its body uses an
\* identifier that no earlier parameter or declaration declared: read_proc
\* never returns Ok for such a procedure.
C6_UndeclaredIsError == ProcParsed => ~UsesUndeclared(tokens, pos)

HeaderStart == Len(ModHead) + Len(ProcHead)

\* The position of the ')' closing the parameter list, 0 if there is none
HeaderEnd(toks) ==
    IF \E j \in DOMAIN toks : toks[j].t = "RightPar"
    THEN CHOOSE j \in DOMAIN toks :
             /\ toks[j].t = "RightPar"
             /\ \A i \in 1..(j - 1) : toks[i].t # "RightPar"
    ELSE 0

\* The tokens between '(' and ')' are n >= 0 parameters, each a type keyword
\* and a name, consecutive ones separated by a comma
CommaSeparated(toks) ==
    /\ HeaderEnd(toks) > HeaderStart
    /\ \/ HeaderEnd(toks) = HeaderStart + 1
       \/ /\ (HeaderEnd(toks) - HeaderStart) % 3 = 0
          /\ \A j \in (HeaderStart + 1)..(HeaderEnd(toks) - 1) :
                IF (j - HeaderStart) % 3 = 1 THEN IsTypeToken(toks[j])
                ELSE IF (j - HeaderStart) % 3 = 2 THEN toks[j].t = "Id"
                ELSE toks[j].t = "Comma"

ParamCount(toks) == (HeaderEnd(toks) - HeaderStart) \div 3

ParamName(toks, k) == toks[HeaderStart + 3 * (k - 1) + 2].v

\* C7: a header of n >= 0 comma-separated parameters parses successfully
\* and gives the parameters the slots 0..n-1 in declaration order, the first
\* local declaration receiving slot n.
C7_CommaParamsParse ==
    CommaSeparated(tokens) =>
        /\ result = "Err" => pos >= HeaderEnd(tokens)
        /\ (pc = "read_proc_body" /\ pos = HeaderEnd(tokens)) =>
              /\ var_idx = ParamCount(tokens)
              /\ \A k \in 1..ParamCount(tokens) :
                    /\ ParamName(tokens, k) \in DOMAIN variables
                    /\ variables[ParamName(tokens, k)].idx = k - 1

HasToken(toks, t) == \E j \in DOMAIN toks : toks[j].t = t

\* The sequence opens a module and ends between two module items
EndsBetweenItems(toks) ==
    /\ Len(toks) >= 2
    /\ toks[1].t = "Mod"
    /\ ~HasToken(toks, "EndMod")
    /\ \/ Len(toks) = 2 /\ toks[2].t = "Id"
       \/ toks[Len(toks)].t = "EndProc"

\* The sequence opens a module and ends inside a procedure body
EndsInBody(toks) ==
    /\ Len(toks) >= 2
    /\ toks[1].t = "Mod"
    /\ ~HasToken(toks, "EndMod")
    /\ HasToken(toks, "Proc")
    /\ HeaderEnd(toks) # 0
    /\ ~HasToken(toks, "EndProc")

\* C8: for every token sequence that opens a module and ends before ENDMOD
\* is reached, between module items or inside a procedure body, parse_tokens
\* returns an "Unexpected end" error and never Ok.
C8_UnexpectedEnd ==
    (pc = "done" /\ (EndsBetweenItems(tokens) \/ EndsInBody(tokens))) =>
        /\ result = "Err"
        /\ err.msg \in {"Unexpected end of module", "Unexpected end of routine"}

\* The frame that holds at position i the variable of slot i
SlotFrame(map, n) ==
    [offset |-> 0,
     variables |-> [i \in 1..n |->
                       map[CHOOSE name \in SlotsOf(map, i - 1) : TRUE].var]]

RECURSIVE RunNodes(_, _, _)
\* The diagnostic lines of the nodes evaluated in order on the frame stk
RunNodes(nodes, stk, o) ==
    IF nodes = <<>> THEN o
    ELSE LET r == Eval(Head(nodes), stk, o)
         IN  IF r.kind = "Panic" THEN o
             ELSE RunNodes(Tail(nodes), r.stack, r.out)

\* The number of TPWRITE statements among the first n tokens
TpWriteCount(toks, n) == Cardinality({j \in 1..n : toks[j].t = "TpWrite"})

\* C10: for every procedure that parses and executes, the diagnostic lines are
\* exactly the lines of its TPWRITE statements, one per statement, in source
\* order, each showing the value the named variable holds at that point.
C10_OutputInOrder ==
    ProcExecuted =>
        /\ Len(out) = TpWriteCount(tokens, pos)
        /\ (\A i \in 0..(var_idx - 1) : SlotsOf(routine.variables, i) # {}) =>
              out = RunNodes(routine.nodes,
                             SlotFrame(routine.variables, var_idx), <<>>)

\* The expression of the assignment in the program of main
ExprOf(toks) == SubSeq(toks, Len(PreExpr) + 1, Len(toks) - Len(PostExpr))

OperandCount(e) == (Len(e) + 1) \div 2

\* The value of the k-th operand; nTest1 holds 0 when the expression is
\* evaluated
OperandValue(e, k) ==
    IF e[2 * k - 1].t = "NumValue" THEN ParseUnwrap(e[2 * k - 1].v)
    ELSE NumInt(0)

\* The operator between the k-th operand and the next
OperatorAt(e, k) == e[2 * k].t

IsAdditive(t) == t \in {"Add", "Minus"}

RECURSIVE TermValue(_, _, _)
\* The operands lo..hi, joined by * and /, combined from left to right
TermValue(e, lo, hi) ==
    IF hi = lo THEN OperandValue(e, lo)
    ELSE IF OperatorAt(e, hi - 1) = "Multiply"
    THEN NumMul(TermValue(e, lo, hi - 1), OperandValue(e, hi))
    ELSE NumDiv(TermValue(e, lo, hi - 1), OperandValue(e, hi))

\* The last operand of the term that starts at operand lo
TermEnd(e, lo) ==
    CHOOSE hi \in lo..OperandCount(e) :
        /\ \A k \in lo..(hi - 1) : ~IsAdditive(OperatorAt(e, k))
        /\ hi < OperandCount(e) => IsAdditive(OperatorAt(e, hi))

RECURSIVE SumValue(_, _)
\* The terms from operand lo on: each term is computed first, then the
\* terms are combined by + and -
SumValue(e, lo) ==
    IF TermEnd(e, lo) = OperandCount(e)
    THEN TermValue(e, lo, OperandCount(e))
    ELSE IF OperatorAt(e, TermEnd(e, lo)) = "Add"
    THEN NumAdd(TermValue(e, lo, TermEnd(e, lo)),
                SumValue(e, TermEnd(e, lo) + 1))
    ELSE NumSub(TermValue(e, lo, TermEnd(e, lo)),
                SumValue(e, TermEnd(e, lo) + 1))

\* The assignment of the program of main has been executed
Assigned == executed >= 1 /\ StackHas(stack, 0)

\* C3: * and / bind tighter than + and -: every multiplicative run is
\* computed as a unit before the additive operators around it are applied,
\* and 2 + 2 * 3 * 4 + 1 evaluates to 27.
C3_Precedence ==
    Assigned =>
        /\ StackGet(stack, 0) = SumValue(ExprOf(tokens), 1)
        /\ ExprOf(tokens) = MainExpr => StackGet(stack, 0) = NumInt(27)
        /\ (ExprOf(tokens) = MainExpr /\ executed = 2) => out = <<NumInt(27)>>

C3_Witness ==
    /\ tokens = ExprProgram(MainExpr)
    /\ executed = 2
    /\ StackGet(stack, 0) = NumInt(27)
    /\ out = <<NumInt(27)>>

RECURSIVE RightFold(_, _)
\* The operands from k on, combined from the right: a op (b op (c ...))
RightFold(e, k) ==
    IF k = OperandCount(e) THEN OperandValue(e, k)
    ELSE IF OperatorAt(e, k) = "Add"
    THEN NumAdd(OperandValue(e, k), RightFold(e, k + 1))
    ELSE NumSub(OperandValue(e, k), RightFold(e, k + 1))

RECURSIVE RightNested(_, _, _)
\* The tree of the operands from k on, nested to the right
RightNested(e, k, vars_map) ==
    IF k = OperandCount(e) THEN Operand(e[2 * k - 1], vars_map).node
    ELSE NodeBin(IF OperatorAt(e, k) = "Add" THEN "OpAdd" ELSE "OpSub",
                 Operand(e[2 * k - 1], vars_map).node,
                 RightNested(e, k + 1, vars_map))

\* The expression is a chain of + and - alone
AdditiveChain(e) ==
    \A k \in 1..(OperandCount(e) - 1) : IsAdditive(OperatorAt(e, k))

\* C4: a chain of + and - groups from the right: a - b + c is parsed and
\* evaluated as a - (b + c), and 10 - 3 + 2 evaluates to 5.
C4_AdditiveRightAssoc ==
    (Assigned /\ AdditiveChain(ExprOf(tokens))) =>
        /\ routine.nodes[1].rhs =
              RightNested(ExprOf(tokens), 1, routine.variables)
        /\ StackGet(stack, 0) = RightFold(ExprOf(tokens), 1)
        /\ ExprOf(tokens) = ChainExpr => StackGet(stack, 0) = NumInt(5)

C4_Witness ==
    /\ tokens = ExprProgram(ChainExpr)
    /\ executed >= 1
    /\ StackGet(stack, 0) = NumInt(5)
    /\ StackGet(stack, 0) # NumInt(9)

\* The table entry with the longest spelling among those that match
LongestMatch(slice) ==
    CHOOSE k \in PrefixMatches(DEFAULT_TOKENS, slice) :
        \A j \in PrefixMatches(DEFAULT_TOKENS, slice) :
            Len(DEFAULT_TOKENS[k][1]) >= Len(DEFAULT_TOKENS[j][1])

\* The source from idx on
Rest == Slice(contents, idx, Len(contents))

\* The tokenizer stands before a comparison operator
AtComparison ==
    /\ lexpc = "scan"
    /\ idx < Len(contents)
    /\ contents[idx + 1] \in {"<", ">"}

\* C9: at '<' or '>' the tokenizer emits the longest operator that matches:
\* '<=' and '<>' are one token each, never '<' followed by '=' or '>', and
\* '>=' is one token, never '>' followed by '='.
C9_LongestComparison ==
    [][AtComparison =>
          /\ lexpc' = "scan"
          /\ tokens' = Append(tokens,
                              Tok(DEFAULT_TOKENS[LongestMatch(Rest)][2]))
          /\ idx' = idx + Len(DEFAULT_TOKENS[LongestMatch(Rest)][1])]_vars

C9_Witness ==
    /\ Len(contents) >= 2
    /\ contents[1] = "<"
    /\ contents[2] = "="
    /\ idx = 2
    /\ tokens = <<Tok("LessEqual")>>

\* The position of the first double quote after position j, 0 if none
NextQuote(j) ==
    IF \E i \in (j + 1)..Len(contents) : IsQuote(contents[i])
    THEN CHOOSE i \in (j + 1)..Len(contents) :
             /\ IsQuote(contents[i])
             /\ \A h \in (j + 1)..(i - 1) : ~IsQuote(contents[h])
    ELSE 0

\* The tokenizer stands at the opening quote of a terminated string literal
AtStringLiteral ==
    /\ lexpc = "scan"
    /\ idx < Len(contents)
    /\ IsQuote(contents[idx + 1])
    /\ NextQuote(idx + 1) # 0

\* The text between the opening quote at idx and the closing quote
LiteralText == SubSeq(contents, idx + 2, NextQuote(idx + 1) - 1)

\* C11: at a terminated string literal the tokenizer emits one StringValue
\* token whose text is exactly the text between the quotes, the empty text
\* included, and resumes at the character after the closing quote.
C11_StringLiteral ==
    [][AtStringLiteral =>
          /\ lexpc' = "scan"
          /\ tokens' = Append(tokens, StringValue(LiteralText))
          /\ idx' = NextQuote(idx + 1)]_vars

\* The position of the last character of the run of letters, digits and
\* underscores that starts at position j
RunEnd(j) ==
    CHOOSE i \in j..Len(contents) :
        /\ \A h \in j..i : ~NotIdChar(contents[h])
        /\ i < Len(contents) => NotIdChar(contents[i + 1])

\* The maximal run that starts at idx
Run == SubSeq(contents, idx + 1, RunEnd(idx + 1))

\* The text is the spelling of a table entry, in any case
IsSpelling(text) ==
    \E k \in DOMAIN DEFAULT_TOKENS :
        /\ Len(DEFAULT_TOKENS[k][1]) = Len(text)
        /\ EqIgnoreAsciiCase(text, DEFAULT_TOKENS[k][1])

\* The tokenizer stands at the start of a maximal run that starts with a
\* letter, is followed by a terminator and is no keyword or type name
AtIdentifier ==
    /\ lexpc = "scan"
    /\ idx < Len(contents)
    /\ IsLetter(contents[idx + 1])
    /\ idx > 0 => NotIdChar(contents[idx])
    /\ RunEnd(idx + 1) < Len(contents)
    /\ ~IsSpelling(Run)

\* C12: a maximal run of letters, digits and underscores that starts with a
\* letter and is no keyword or type name is emitted as one Id token carrying
\* the whole run, also when it begins with the letters of a keyword; it is
\* never split into a keyword token and an Id token.
C12_WholeIdentifier ==
    [][AtIdentifier =>
          /\ lexpc' = "scan"
          /\ tokens' = Append(tokens, Id(Run))
          /\ idx' = RunEnd(idx + 1)]_vars

====
